---- MODULE Spec2Model ----
(***************************************************************************)
(* FetchData.py: the price-history exporter.  One run of the script is one *)
(* behaviour: read two positional arguments, request the daily series,     *)
(* turn the date index into a column, select Date and Close, format the    *)
(* dates, print the records as JSON.  An uncaught exception ends the run   *)
(* with exit status 1.                                                     *)
(*                                                                         *)
(* The provider (yfinance) and pandas are outside the repository.  The     *)
(* provider's response is a nondeterministic choice among well-formed      *)
(* daily tables: a datetime index named Date, at least one field column,   *)
(* distinct column keys, flat or two-level.  pandas calls are modelled by  *)
(* what they do to such a table.                                           *)
(***************************************************************************)
EXTENDS Integers, Sequences, FiniteSets

VARIABLES pc, argv, ticker, start_date, requests, response, data, close_col,
          result_data, stdout, error, exit_code

vars == <<pc, argv, ticker, start_date, requests, response, data, close_col,
          result_data, stdout, error, exit_code>>

\* ------------------------------------------------------------------ bounds
MaxArgs == 3     \* positional arguments on the command line: 0..MaxArgs
MaxRows == 2     \* rows of a provider response: 0..MaxRows
MaxCols == 2     \* field columns of a provider response: 1..MaxCols

\* ------------------------------------------------------- values and cells
None == <<>>     \* Python None, and a table name not yet assigned
Unbound == ""    \* ticker and start_date before their assignment
Running == -1    \* exit_code while the process has not exited

Ts(y, m, d, h) == [k |-> "ts", year |-> y, month |-> m, day |-> d, hour |-> h]
Num(w, f) == [k |-> "num", whole |-> w, frac |-> f]   \* w.f, f decimal digits
NaN == [k |-> "nan"]
Str(s) == [k |-> "str", s |-> s]

\* Sample rows of daily data; a response draws its rows from them.
Quotes == <<
  [Date |-> Ts(2021, 5, 3, 0),
   Open |-> Num(131, <<9, 9, 9, 9, 9, 9, 9, 9, 9, 9, 6>>),
   Close |-> Num(132, <<0, 4>>),
   Volume |-> Num(75135100, <<>>)],
  [Date |-> Ts(1999, 12, 31, 16),
   Open |-> Num(0, <<0, 0, 0, 4, 8, 8, 2, 8, 1, 2, 5>>),
   Close |-> Num(72, <<7, 1, 6, 0, 7, 2, 0, 8, 2, 5, 1, 9, 5, 3>>),
   Volume |-> Num(135480400, <<>>)],
  [Date |-> Ts(2020, 1, 2, 0),
   Open |-> Num(71, <<7, 2, 1, 0, 1, 8, 9, 8, 1, 2, 6, 4, 2>>),
   Close |-> Num(72, <<8, 7, 5>>),
   Volume |-> Num(1, <<>>)],
  [Date |-> Ts(2024, 2, 29, 0),
   Open |-> Num(180, <<5>>),
   Close |-> NaN,
   Volume |-> NaN] >>

Fields == {"Open", "Close", "Volume"}
Symbols == {"AAPL", "Close"}
Tickers == {"AAPL"}

\* The value a sample row holds for a field of a symbol: the symbols' series
\* differ in the whole part.
QuoteCell(q, field, symbol) ==
  LET c == Quotes[q][field]
  IN IF c.k = "nan" THEN NaN
     ELSE Num(c.whole + (IF symbol = "AAPL" THEN 0 ELSE 1), c.frac)

\* Sequences of length lo..hi over S, without repetition.
DistinctSeqs(S, lo, hi) ==
  UNION { { s \in [1..n -> S] : \A i, j \in 1..n : i # j => s[i] # s[j] }
          : n \in lo..hi }

\* The tables yf.download can return: index (the dates), columns (the keys,
\* strings when flat and <<field, symbol>> pairs when two-level), values
\* (one sequence of cells per row).
Responses ==
  LET RowSeqs == UNION { [1..n -> 1..Len(Quotes)] : n \in 0..MaxRows }
      Flat == { [multi |-> FALSE, name |-> "Date",
                 index |-> [i \in 1..Len(r) |-> Quotes[r[i]].Date],
                 columns |-> c,
                 values |-> [i \in 1..Len(r) |->
                              [j \in 1..Len(c) |-> QuoteCell(r[i], c[j], "AAPL")]]]
                : r \in RowSeqs, c \in DistinctSeqs(Fields, 1, MaxCols) }
      Multi == { [multi |-> TRUE, name |-> "Date",
                  index |-> [i \in 1..Len(r) |-> Quotes[r[i]].Date],
                  columns |-> c,
                  values |-> [i \in 1..Len(r) |->
                               [j \in 1..Len(c) |-> QuoteCell(r[i], c[j][1], c[j][2])]]]
                 : r \in RowSeqs, c \in DistinctSeqs(Fields \X Symbols, 1, MaxCols) }
  IN Flat \cup Multi

\* sys.argv[1:] for a command line of n positional arguments.
ArgvOf(t, n) ==
  [i \in 1..n |-> IF i = 1 THEN t ELSE IF i = 2 THEN "2020-01-01" ELSE "extra"]

\* ------------------------------------------------------------ pandas calls
\* Variant: data.dropna().reset_index(), rows with an absent value are dropped.
ResetIndexDropNa(t) ==
  LET rows == [i \in 1..Len(t.index) |-> <<t.index[i]>> \o t.values[i]]
  IN [multi |-> t.multi,
      columns |-> <<IF t.multi THEN <<t.name, "">> ELSE t.name>> \o t.columns,
      values |-> SelectSeq(rows, LAMBDA r : \A j \in 1..Len(r) : r[j].k # "nan")]

\* data.reset_index(): the index becomes the first column, under its name;
\* with two-level columns the name is padded with "" on the second level.
ResetIndex(t) ==
  [multi |-> t.multi,
   columns |-> <<IF t.multi THEN <<t.name, "">> ELSE t.name>> \o t.columns,
   values |-> [i \in 1..Len(t.index) |-> <<t.index[i]>> \o t.values[i]]]

NRows(t) == Len(t.values)

\* The lowest of a set of column positions, 0 when the set is empty.
Lowest(S) == IF S = {} THEN 0 ELSE CHOOSE j \in S : \A h \in S : j <= h

\* Position of the first column with the given key, 0 if none.
Position(cols, key) == Lowest({j \in 1..Len(cols) : cols[j] = key})

\* The cells of column j, one per row.
ILoc(t, j) == [i \in 1..NRows(t) |-> t.values[i][j]]

\* Variant: if 'Close' in col, a match on either level.
FindCloseColAnyLevel(cols) ==
  LET j == Lowest({h \in 1..Len(cols) : cols[h][1] = "Close" \/ cols[h][2] = "Close"})
  IN IF j = 0 THEN None ELSE cols[j]

\* for col in data.columns: if col[0] == 'Close': close_col = col; break
FindCloseCol(cols) ==
  LET j == Lowest({h \in 1..Len(cols) : cols[h][1] = "Close"})
  IN IF j = 0 THEN None ELSE cols[j]

\* bool(x) for None and tuples
Truthy(x) == x # None /\ Len(x) > 0

\* data[key] on two-level columns: a full key selects that column; a first
\* level alone selects the one column under it whose second level is "".
GetItemMulti(t, key) ==
  ILoc(t, Position(t.columns, key))

GetItemLevel0(t, name) ==
  ILoc(t, Position(t.columns, <<name, "">>))

\* Variant: data.iloc[:, 1], the first column after Date.
ILocSecond(t) == ILoc(t, 2)

\* data.iloc[:, -1]
ILocLast(t) == ILoc(t, Len(t.columns))

\* Variant: the price column keeps the first-level name of the column taken.
SelectMultiKeepName(t, cc) ==
  LET date == GetItemLevel0(t, "Date")
      close == IF Truthy(cc) THEN GetItemMulti(t, cc) ELSE ILocLast(t)
      name == IF Truthy(cc) THEN cc[1] ELSE t.columns[Len(t.columns)][1]
  IN [multi |-> FALSE,
      columns |-> <<"Date", name>>,
      values |-> [i \in 1..NRows(t) |-> <<date[i], close[i]>>]]

\* pd.DataFrame({'Date': ..., 'Close': ...}) of the two-level branch
SelectMulti(t, cc) ==
  LET date == GetItemLevel0(t, "Date")
      close == IF Truthy(cc) THEN GetItemMulti(t, cc) ELSE ILocLast(t)
  IN [multi |-> FALSE,
      columns |-> <<"Date", "Close">>,
      values |-> [i \in 1..NRows(t) |-> <<date[i], close[i]>>]]

\* data[["Date", "Close"]] raises KeyError when a name is no column
FlatHasColumns(t, names) ==
  \A n \in 1..Len(names) : \E j \in 1..Len(t.columns) : t.columns[j] = names[n]

\* Variant: data.iloc[:, [0, 1]], the columns taken by position.
SelectFlatByPosition(t, names) ==
  [multi |-> FALSE,
   columns |-> names,
   values |-> [i \in 1..NRows(t) |-> [n \in 1..Len(names) |-> t.values[i][n]]]]

SelectFlat(t, names) ==
  [multi |-> FALSE,
   columns |-> names,
   values |-> [i \in 1..NRows(t) |->
                [n \in 1..Len(names) |->
                  t.values[i][Position(t.columns, names[n])]]]]

\* ------------------------------------------------------ strftime('%Y-%m-%d')
DigitChars == <<"0", "1", "2", "3", "4", "5", "6", "7", "8", "9">>

\* n in decimal, zero-padded to w characters (n < 10^w)
RECURSIVE Pad(_, _)
Pad(n, w) == IF w = 0 THEN <<>> ELSE Pad(n \div 10, w - 1) \o <<DigitChars[(n % 10) + 1]>>

\* Variant: '%Y-%-m-%-d', month and day without the leading zero.
StrftimeNoPad(ts) ==
  Pad(ts.year, 4) \o <<"-">> \o Pad(ts.month, IF ts.month < 10 THEN 1 ELSE 2)
    \o <<"-">> \o Pad(ts.day, IF ts.day < 10 THEN 1 ELSE 2)

Strftime(ts) == Pad(ts.year, 4) \o <<"-">> \o Pad(ts.month, 2) \o <<"-">> \o Pad(ts.day, 2)

\* result_data['Date'] = result_data['Date'].dt.strftime('%Y-%m-%d')
FormatDate(t) ==
  LET d == Position(t.columns, "Date")
  IN [t EXCEPT !.values =
        [i \in 1..NRows(t) |->
          [j \in 1..Len(t.columns) |->
            IF j = d THEN Str(Strftime(t.values[i][j])) ELSE t.values[i][j]]]]

\* ------------------------------------------------- to_json(orient="records")
DoublePrecision == 10   \* to_json's default double_precision

JNumber(w, f) == [t |-> "number", whole |-> w, frac |-> f]
JNull == [t |-> "null"]
JString(s) == [t |-> "string", s |-> s]
JEpoch(ts) == [t |-> "number", epoch_ms_of |-> ts]

RECURSIVE StripZeros(_)
StripZeros(ds) ==
  IF ds # <<>> /\ ds[Len(ds)] = 0 THEN StripZeros(SubSeq(ds, 1, Len(ds) - 1)) ELSE ds

\* The first p decimal digits of a fraction, zero-filled to p digits.
Kept(ds, p) == [i \in 1..p |-> IF i <= Len(ds) THEN ds[i] ELSE 0]

\* The digits after the first p.
Rest(ds, p) == IF Len(ds) > p THEN SubSeq(ds, p + 1, Len(ds)) ELSE <<>>

\* ++frac over a fixed number of digits; carry is the rollover into whole
\* (frac >= pow10: frac = 0, ++whole).
Increment(ds) ==
  LET NotNine == {h \in 1..Len(ds) : ds[h] # 9}
      j == IF NotNine = {} THEN 0 ELSE CHOOSE h \in NotNine : \A g \in NotNine : g <= h
  IN [digits |-> [i \in 1..Len(ds) |->
                   IF i < j THEN ds[i] ELSE IF i = j THEN ds[i] + 1 ELSE 0],
      carry |-> IF j = 0 THEN 1 ELSE 0]

\* A double written with p decimal places: round to nearest, a tie goes up
\* when the kept fraction is zero or odd; trailing zeros are not written.
EncodeDouble(c, p) ==
  LET kept == Kept(c.frac, p)
      rest == Rest(c.frac, p)
      above == rest # <<>> /\ (rest[1] > 5 \/ (rest[1] = 5 /\ Len(rest) > 1))
      tie == rest = <<5>>
      zero == \A i \in 1..p : kept[i] = 0
      odd == p > 0 /\ kept[p] % 2 = 1
      inc == IF above \/ (tie /\ (zero \/ odd)) THEN Increment(kept)
             ELSE [digits |-> kept, carry |-> 0]
  IN JNumber(c.whole + inc.carry, StripZeros(inc.digits))

\* One cell as a JSON value: NaN is written null, a datetime as epoch
\* milliseconds, a string as a string.
ToJsonValue(c) ==
  CASE c.k = "num" -> EncodeDouble(c, DoublePrecision)
    [] c.k = "nan" -> JNull
    [] c.k = "str" -> JString(c.s)
    [] c.k = "ts" -> JEpoch(c)

\* The array of objects, one per row; an object is its <<key, value>> pairs
\* in column order.
ToJson(t) ==
  [i \in 1..NRows(t) |->
    [j \in 1..Len(t.columns) |-> <<t.columns[j], ToJsonValue(t.values[i][j])>>]]

\* --------------------------------------------------------------- the script
Failed == [k |-> "failed"]   \* the request raised instead of returning

Init ==
  /\ pc = "read_ticker"
  /\ \E t \in Tickers, n \in 0..MaxArgs : argv = ArgvOf(t, n)
  /\ ticker = Unbound
  /\ start_date = Unbound
  /\ requests = 0
  /\ response = None
  /\ data = None
  /\ close_col = None
  /\ result_data = None
  /\ stdout = <<>>
  /\ error = "none"
  /\ exit_code = Running

\* Variant: the exception is caught at top level and the run exits normally.
RaiseExitZero(e) ==
  /\ pc' = "exit"
  /\ error' = e
  /\ exit_code' = 0

\* An uncaught exception: traceback on stderr, exit status 1.
Raise(e) ==
  /\ pc' = "exit"
  /\ error' = e
  /\ exit_code' = 1

\* ticker = sys.argv[1]
ReadTicker ==
  /\ pc = "read_ticker"
  /\ IF Len(argv) >= 1
     THEN /\ ticker' = argv[1]
          /\ pc' = "read_start_date"
          /\ UNCHANGED <<error, exit_code>>
     ELSE /\ Raise("IndexError")
          /\ UNCHANGED ticker
  /\ UNCHANGED <<argv, start_date, requests, response, data, close_col,
                 result_data, stdout>>

\* Variant: a missing start date is replaced by a default.
ReadStartDateDefault ==
  /\ pc = "read_start_date"
  /\ start_date' = IF Len(argv) >= 2 THEN argv[2] ELSE "2020-01-01"
  /\ pc' = "download"
  /\ UNCHANGED <<argv, ticker, requests, response, data, close_col,
                 result_data, stdout, error, exit_code>>

\* start_date = sys.argv[2]
ReadStartDate ==
  /\ pc = "read_start_date"
  /\ IF Len(argv) >= 2
     THEN /\ start_date' = argv[2]
          /\ pc' = "download"
          /\ UNCHANGED <<error, exit_code>>
     ELSE /\ Raise("IndexError")
          /\ UNCHANGED start_date
  /\ UNCHANGED <<argv, ticker, requests, response, data, close_col,
                 result_data, stdout>>

\* Variant: a failed request is caught and the run goes on with an empty table.
DownloadCaught ==
  /\ pc = "download"
  /\ requests' = requests + 1
  /\ \/ \E r \in Responses : response' = r /\ data' = r
     \/ /\ response' = Failed
        /\ data' = [multi |-> FALSE, name |-> "Date", index |-> <<>>,
                    columns |-> <<"Close">>, values |-> <<>>]
  /\ pc' = "reset_index"
  /\ UNCHANGED <<argv, ticker, start_date, close_col, result_data, stdout,
                 error, exit_code>>

\* data = yf.download(...): the provider answers with a table, or the call
\* raises and nothing catches it.
Download ==
  /\ pc = "download"
  /\ requests' = requests + 1
  /\ \/ \E r \in Responses :
          /\ response' = r
          /\ data' = r
          /\ pc' = "reset_index"
          /\ UNCHANGED <<error, exit_code>>
     \/ /\ response' = Failed
        /\ Raise("DownloadError")
        /\ UNCHANGED data
  /\ UNCHANGED <<argv, ticker, start_date, close_col, result_data, stdout>>

\* data = data.reset_index()
ResetIndexStep ==
  /\ pc = "reset_index"
  /\ data' = ResetIndex(data)
  /\ pc' = "select"
  /\ UNCHANGED <<argv, ticker, start_date, requests, response, close_col,
                 result_data, stdout, error, exit_code>>

\* if isinstance(data.columns, pd.MultiIndex): scan for Close, build the
\* two-column frame, falling back to the last column
SelectMultiStep ==
  /\ pc = "select"
  /\ data.multi
  /\ close_col' = FindCloseCol(data.columns)
  /\ result_data' = SelectMulti(data, close_col')
  /\ pc' = "strftime"
  /\ UNCHANGED <<argv, ticker, start_date, requests, response, data, stdout,
                 error, exit_code>>

\* Variant: the flat branch falls back to the last column as well.
SelectFlatStepFallback ==
  /\ pc = "select"
  /\ ~data.multi
  /\ result_data' =
       SelectFlat(data, <<"Date", IF FlatHasColumns(data, <<"Close">>) THEN "Close"
                                  ELSE data.columns[Len(data.columns)]>>)
  /\ pc' = "strftime"
  /\ UNCHANGED <<argv, ticker, start_date, requests, response, data,
                 close_col, stdout, error, exit_code>>

\* else: result_data = data[["Date", "Close"]]
SelectFlatStep ==
  /\ pc = "select"
  /\ ~data.multi
  /\ IF FlatHasColumns(data, <<"Date", "Close">>)
     THEN /\ result_data' = SelectFlat(data, <<"Date", "Close">>)
          /\ pc' = "strftime"
          /\ UNCHANGED <<error, exit_code>>
     ELSE /\ Raise("KeyError")
          /\ UNCHANGED result_data
  /\ UNCHANGED <<argv, ticker, start_date, requests, response, data,
                 close_col, stdout>>

\* result_data['Date'] = result_data['Date'].dt.strftime('%Y-%m-%d')
FormatDateStep ==
  /\ pc = "strftime"
  /\ result_data' = FormatDate(result_data)
  /\ pc' = "print"
  /\ UNCHANGED <<argv, ticker, start_date, requests, response, data,
                 close_col, stdout, error, exit_code>>

\* print(result_data.to_json(orient="records"))
PrintJson ==
  /\ pc = "print"
  /\ stdout' = Append(stdout, ToJson(result_data))
  /\ pc' = "end"
  /\ UNCHANGED <<argv, ticker, start_date, requests, response, data,
                 close_col, result_data, error, exit_code>>

\* the end of the script: the interpreter exits with status 0
Exit ==
  /\ pc = "end"
  /\ pc' = "exit"
  /\ exit_code' = 0
  /\ UNCHANGED <<argv, ticker, start_date, requests, response, data,
                 close_col, result_data, stdout, error>>

Next ==
  \/ ReadTicker
  \/ ReadStartDate
  \/ Download
  \/ ResetIndexStep
  \/ SelectMultiStep
  \/ SelectFlatStep
  \/ FormatDateStep
  \/ PrintJson
  \/ Exit

Spec == Init /\ [][Next]_vars

\* ===================================================================
\* Reading the run from outside: the provider's table and the text on
\* standard output.
\* ===================================================================
Written == Len(stdout) = 1
Out == stdout[1]
Answered == response # None /\ response # Failed

KeyOf(rec, n) == rec[n][1]
ValueOf(rec, n) == rec[n][2]

\* Level-0 name of a provider column key.
FieldOf(key) == IF response.multi THEN key[1] ELSE key

HasClose == \E j \in 1..Len(response.columns) : FieldOf(response.columns[j]) = "Close"

\* The first provider column (in column order) named Close.
FirstClosePos ==
  CHOOSE j \in 1..Len(response.columns) :
    /\ FieldOf(response.columns[j]) = "Close"
    /\ \A h \in 1..(j - 1) : FieldOf(response.columns[h]) # "Close"

LastPos == Len(response.columns)

\* The provider column a successful run takes its prices from.
PricePos == IF HasClose THEN FirstClosePos ELSE LastPos

\* --- dates as text
IsDigit(c) == \E d \in 1..10 : DigitChars[d] = c
DigitVal(c) == (CHOOSE d \in 1..10 : DigitChars[d] = c) - 1

RECURSIVE Decimal(_)
Decimal(cs) ==
  IF cs = <<>> THEN 0
  ELSE 10 * Decimal(SubSeq(cs, 1, Len(cs) - 1)) + DigitVal(cs[Len(cs)])

IsLeap(y) == (y % 4 = 0 /\ y % 100 # 0) \/ y % 400 = 0
DaysIn(y, m) ==
  IF m = 2 THEN (IF IsLeap(y) THEN 29 ELSE 28)
  ELSE IF m \in {4, 6, 9, 11} THEN 30 ELSE 31

\* cs has the shape YYYY-MM-DD
IsoShape(cs) ==
  /\ Len(cs) = 10
  /\ cs[5] = "-" /\ cs[8] = "-"
  /\ \A i \in {1, 2, 3, 4, 6, 7, 9, 10} : IsDigit(cs[i])

ParseYear(cs) == Decimal(SubSeq(cs, 1, 4))
ParseMonth(cs) == Decimal(SubSeq(cs, 6, 7))
ParseDay(cs) == Decimal(SubSeq(cs, 9, 10))

\* cs is YYYY-MM-DD and names a day of the calendar
IsCalendarDate(cs) ==
  /\ IsoShape(cs)
  /\ ParseMonth(cs) \in 1..12
  /\ ParseDay(cs) \in 1..DaysIn(ParseYear(cs), ParseMonth(cs))

\* the JSON value v is the calendar date of the timestamp ts, as text
IsDateOf(v, ts) ==
  /\ v.t = "string"
  /\ IsCalendarDate(v.s)
  /\ ParseYear(v.s) = ts.year
  /\ ParseMonth(v.s) = ts.month
  /\ ParseDay(v.s) = ts.day

\* dates compared as (year, month, day)
DateLeq(a, b) ==
  \/ a.year < b.year
  \/ a.year = b.year /\ a.month < b.month
  \/ a.year = b.year /\ a.month = b.month /\ a.day <= b.day

ParsedDate(v) == [year |-> ParseYear(v.s), month |-> ParseMonth(v.s), day |-> ParseDay(v.s)]

\* --- prices as JSON
\* the JSON value v is the cell c, digit for digit (null for an absent value)
IsExactly(v, c) ==
  IF c.k = "nan" THEN v = JNull ELSE v = JNumber(c.whole, c.frac)

\* the JSON value v is the cell c rounded to the nearest number of p decimal
\* places (either neighbour on a tie), null for an absent value
IsRounded(v, c, p) ==
  IF c.k = "nan" THEN v = JNull
  ELSE LET kept == Kept(c.frac, p)
           rest == Rest(c.frac, p)
           up == Increment(kept)
       IN \/ /\ v = JNumber(c.whole, StripZeros(kept))
             /\ (rest = <<>> \/ rest[1] < 5 \/ rest = <<5>>)
          \/ /\ v = JNumber(c.whole + up.carry, StripZeros(up.digits))
             /\ rest # <<>> /\ rest[1] >= 5

\* some provider cell of column j has more decimal places than are written
LongCellIn(j) ==
  \E i \in 1..Len(response.values) :
    /\ response.values[i][j].k = "num"
    /\ Len(response.values[i][j].frac) > DoublePrecision

\* ===================================================================
\* Claims
\* ===================================================================

\* C1 (as stated): for a flat response with Date and Close, every emitted
\* record holds only Date and Close, in that order, and the i-th record
\* carries the date and the Close value of the i-th provider row, digit for
\* digit.
C1_FlatCarriesCloseExactly ==
  (Written /\ ~response.multi) =>
    /\ Len(Out) = Len(response.index)
    /\ \A i \in 1..Len(Out) :
         /\ Len(Out[i]) = 2
         /\ KeyOf(Out[i], 1) = "Date" /\ KeyOf(Out[i], 2) = "Close"
         /\ IsDateOf(ValueOf(Out[i], 1), response.index[i])
         /\ IsExactly(ValueOf(Out[i], 2), response.values[i][FirstClosePos])

\* C1 (amended): for a flat response with Date and Close, every emitted
\* record holds only Date and Close, in that order, and the i-th record
\* carries the date of the i-th provider row and its Close value rounded to
\* 10 decimal places (null when absent), whatever other columns are present.
C1_FlatCarriesCloseRounded ==
  (Written /\ ~response.multi) =>
    /\ Len(Out) = Len(response.index)
    /\ \A i \in 1..Len(Out) :
         /\ Len(Out[i]) = 2
         /\ KeyOf(Out[i], 1) = "Date" /\ KeyOf(Out[i], 2) = "Close"
         /\ IsDateOf(ValueOf(Out[i], 1), response.index[i])
         /\ IsRounded(ValueOf(Out[i], 2), response.values[i][FirstClosePos],
                      DoublePrecision)

\* A flat response with another column before Close and two rows, one of
\* them with a Close of more than 10 decimal places, has been written.
C1_Witness ==
  /\ Written /\ ~response.multi
  /\ Len(Out) = 2
  /\ FirstClosePos = 2
  /\ LongCellIn(FirstClosePos)

\* C2 (as stated): for a two-level response with a column whose first level
\* is Close, each record's price is the value of that column for the same
\* row, digit for digit, whatever the symbols on the second level.
C2_MultiCarriesCloseExactly ==
  (Written /\ response.multi /\ HasClose) =>
    \A i \in 1..Len(Out) :
      IsExactly(ValueOf(Out[i], 2), response.values[i][FirstClosePos])

\* C2 (amended): for a two-level response with a column whose first level is
\* Close, each record's price is the value of that column for the same row,
\* rounded to 10 decimal places (null when absent), whatever the symbols on
\* the second level.
C2_MultiCarriesCloseRounded ==
  (Written /\ response.multi /\ HasClose) =>
    /\ Len(Out) = Len(response.index)
    /\ \A i \in 1..Len(Out) :
         IsRounded(ValueOf(Out[i], 2), response.values[i][FirstClosePos],
                   DoublePrecision)

\* A two-level response whose first column is another field of a symbol that
\* is itself called Close, followed by the Close column, has been written.
C2_Witness ==
  /\ Written /\ response.multi /\ HasClose
  /\ Len(Out) = 2
  /\ FirstClosePos = 2
  /\ response.columns[1][2] = "Close"
  /\ LongCellIn(FirstClosePos)

\* C3: in a successful run the records are the provider's rows, one for one
\* and in order (so sorted by date when the provider's rows are), and a price
\* is null exactly when the provider's value for the row is absent.
C3_RowsPreserved ==
  (exit_code = 0) =>
    /\ Written
    /\ Len(Out) = Len(response.index)
    /\ \A i \in 1..Len(Out) :
         /\ IsDateOf(ValueOf(Out[i], 1), response.index[i])
         /\ IsRounded(ValueOf(Out[i], 2), response.values[i][PricePos],
                      DoublePrecision)
         /\ (ValueOf(Out[i], 2) = JNull <=> response.values[i][PricePos].k = "nan")
    /\ (\A i \in 1..(Len(Out) - 1) : DateLeq(response.index[i], response.index[i + 1]))
         => \A i \in 1..(Len(Out) - 1) :
              DateLeq(ParsedDate(ValueOf(Out[i], 1)), ParsedDate(ValueOf(Out[i + 1], 1)))

\* A successful run over two rows in date order, the first with a price and
\* the second with a gap.
C3_Witness ==
  /\ exit_code = 0
  /\ Len(Out) = 2
  /\ DateLeq(response.index[1], response.index[2])
  /\ response.values[1][PricePos].k = "num"
  /\ response.values[2][PricePos].k = "nan"

\* C4: a run with fewer than two positional arguments never issues a request
\* or writes to standard output, goes on until it exits, and exits non-zero.
C4_TooFewArguments ==
  (Len(argv) < 2) =>
    /\ stdout = <<>>
    /\ requests = 0
    /\ pc \in {"read_ticker", "read_start_date", "exit"}
    /\ (pc = "exit" => exit_code \notin {0, Running})
    /\ (pc # "exit" => ENABLED Next)

\* A run with one argument has exited.
C4_Witness ==
  /\ Len(argv) = 1
  /\ pc = "exit"
  /\ ticker = argv[1]
  /\ start_date = Unbound

\* C5: when the request fails the run has ended with a non-zero status,
\* standard output is empty and the request was the only one.
C5_RequestFailurePropagates ==
  (response = Failed) =>
    /\ pc = "exit"
    /\ exit_code \notin {0, Running}
    /\ stdout = <<>>
    /\ requests = 1
    /\ ~ENABLED Next

\* The request has failed.
C5_Witness ==
  /\ response = Failed
  /\ error = "DownloadError"

\* C6: at most one request and one write; a terminated run has status 0
\* exactly when the array was written; a successful run made one request and
\* one write; and what is written is the table after the request, the
\* selection and the date formatting.
C6_OneRequestOneWrite ==
  /\ requests <= 1
  /\ Len(stdout) <= 1
  /\ (pc = "exit" => (exit_code = 0 <=> Written))
  /\ (exit_code = 0 => requests = 1 /\ Written)
  /\ (stdout # <<>> =>
        /\ requests = 1
        /\ Answered
        /\ result_data # None
        /\ Len(result_data.columns) = 2
        /\ \A i \in 1..Len(result_data.values) : result_data.values[i][1].k = "str"
        /\ pc \in {"end", "exit"})

\* A run has exited with status 0 after writing a non-empty array.
C6_Witness ==
  /\ pc = "exit"
  /\ exit_code = 0
  /\ Written
  /\ Len(Out) >= 1

\* C7 (as stated): in a successful run every object has exactly two keys,
\* named as the selected provider columns were: the price key is the name of
\* the selected column, in the flat shape, the two-level shape with Close and
\* the two-level fallback alike.
C7_KeysAreSelectedNames ==
  (exit_code = 0) =>
    \A i \in 1..Len(Out) :
      /\ Len(Out[i]) = 2
      /\ KeyOf(Out[i], 1) = response.name
      /\ KeyOf(Out[i], 2) = FieldOf(response.columns[PricePos])

\* C7 (amended): in a successful run every object has exactly two keys, Date
\* and Close in that order.  In the flat shape and in the two-level shape with
\* a Close column these are the (first-level) names of the selected columns;
\* in the two-level fallback the last column is emitted under the key Close,
\* whatever its name.
C7_KeysAreDateClose ==
  (exit_code = 0) =>
    \A i \in 1..Len(Out) :
      /\ Len(Out[i]) = 2
      /\ KeyOf(Out[i], 1) = "Date"
      /\ KeyOf(Out[i], 2) = "Close"
      /\ KeyOf(Out[i], 1) = response.name
      /\ (HasClose => KeyOf(Out[i], 2) = FieldOf(response.columns[PricePos]))

\* A successful run that fell back to a last column named Volume.
C7_Witness ==
  /\ exit_code = 0
  /\ response.multi /\ ~HasClose
  /\ Len(Out) >= 1
  /\ FieldOf(response.columns[LastPos]) = "Volume"
  /\ close_col = None

\* C8 (as stated): a two-level response without a Close column does not fail
\* the run: each record's price is the value of the last column for the row,
\* digit for digit, and the run exits with status 0.
C8_FallbackCarriesLastExactly ==
  (Answered /\ response.multi /\ ~HasClose) =>
    /\ error = "none"
    /\ exit_code \in {Running, 0}
    /\ (pc \in {"reset_index", "select", "strftime", "end"} => ENABLED Next)
    /\ (pc = "exit" => exit_code = 0 /\ Written)
    /\ Written => \A i \in 1..Len(Out) :
                    IsExactly(ValueOf(Out[i], 2), response.values[i][LastPos])

\* C8 (amended): a two-level response without a Close column does not fail
\* the run: each record's price is the value of the last column for the row,
\* rounded to 10 decimal places (null when absent), and the run exits with
\* status 0.
C8_FallbackCarriesLastRounded ==
  (Answered /\ response.multi /\ ~HasClose) =>
    /\ error = "none"
    /\ exit_code \in {Running, 0}
    /\ (pc \in {"reset_index", "select", "strftime", "end"} => ENABLED Next)
    /\ (pc = "exit" => exit_code = 0 /\ Written)
    /\ Written => /\ Len(Out) = Len(response.index)
                  /\ \A i \in 1..Len(Out) :
                       IsRounded(ValueOf(Out[i], 2), response.values[i][LastPos],
                                 DoublePrecision)

\* A run over a two-level response of two columns, neither Close, the last
\* with more than 10 decimal places, has exited with status 0.
C8_Witness ==
  /\ Answered /\ response.multi /\ ~HasClose
  /\ pc = "exit" /\ exit_code = 0
  /\ Len(Out) = 2
  /\ LastPos = 2
  /\ LongCellIn(LastPos)

\* C9: in a successful run every record's date is a non-null string of the
\* shape YYYY-MM-DD that names the calendar date of the provider's row.
C9_DatesAreIsoDates ==
  (exit_code = 0) =>
    /\ Len(Out) = Len(response.index)
    /\ \A i \in 1..Len(Out) :
         /\ ValueOf(Out[i], 1) # JNull
         /\ ValueOf(Out[i], 1).t = "string"
         /\ IsCalendarDate(ValueOf(Out[i], 1).s)
         /\ IsDateOf(ValueOf(Out[i], 1), response.index[i])

\* A successful run over a row whose timestamp has a time of day and another
\* whose month and day have one digit.
C9_Witness ==
  /\ exit_code = 0
  /\ Len(Out) = 2
  /\ response.index[1].hour # 0
  /\ response.index[2].month < 10 /\ response.index[2].day < 10

\* C10: a flat response without a Close column ends the run with a non-zero
\* status and nothing on standard output, no other column standing in; a
\* two-level response with several Close columns yields the first of them.
C10_FallbackOnlyTwoLevel ==
  /\ (Answered /\ ~response.multi /\ ~HasClose) =>
       /\ stdout = <<>>
       /\ result_data = None
       /\ pc \in {"reset_index", "select", "exit"}
       /\ (pc = "exit" => exit_code \notin {0, Running})
       /\ (pc # "exit" => ENABLED Next)
  /\ (Answered /\ response.multi /\ pc \in {"strftime", "print", "end", "exit"}) =>
       (HasClose => close_col = response.columns[FirstClosePos])

\* A run over a flat response of two columns, neither Close, has exited.
C10_Witness ==
  /\ Answered /\ ~response.multi /\ ~HasClose
  /\ Len(response.columns) = 2
  /\ Len(response.index) >= 1
  /\ pc = "exit"

====
